---- MODULE Spec2Model ----
(***************************************************************************)
(* PNG -> WebP batch converter: the UI controller of src/ui/app.py, the    *)
(* batch worker of src/ui/conversion_utils.py and the message channel      *)
(* between them.                                                           *)
(*                                                                         *)
(* Spec        the application: the UI event loop (entry edits, browse     *)
(*             selections, convert clicks, queue polling) and the worker   *)
(*             threads it starts.  The callbacks handed to the worker are  *)
(*             the application's own (queue puts, which never raise) and   *)
(*             the converter is convert_png_to_webp (returns a boolean).   *)
(* WorkerSpec  run_conversion_worker on its own, called with a file list   *)
(*             of any length and arbitrary callables: every callback and   *)
(*             the converter may raise.                                    *)
(***************************************************************************)
EXTENDS Integers, Sequences, FiniteSets, TLC

\* ------------------------------------------------------------- bounds
MaxFiles == 3      \* longest file list handed to the worker on its own
DirFiles == 2      \* PNG files under the source directory "pics"
MaxThreads == 2    \* worker threads started in one run of the application
MaxLines == 6      \* a user operation adds no line beyond this many status lines
MaxDepth == 2      \* deepest nesting of a file's subdirectories below the source root
MaxEntries == 2    \* most files and directories in a tree handed to the discoverer
MaxTicks == 2      \* polling ticks of the UI taken on their own
MaxPuts == 2       \* messages put on the channel around those ticks
MaxCalls == 4      \* callback calls of a worker that may raise when two workers are compared

\* ------------------------------------------------------ the environment
None == "None"
NoThread == 0

\* Existing directories the user can name or browse to.
SourceDirs == {"empty", "pics"}
DestDirs == {"out"}
\* Texts the user can leave in the source entry: empty, a path that is not
\* an existing directory, or an existing directory.
SourceTexts == {"", "missing"} \cup SourceDirs
DestTexts == {""} \cup DestDirs

\* Path.exists() and Path.is_dir() of a source entry text.
IsDir(text) == text \in SourceDirs

\* find_png_files: the sorted list of the PNG files under a directory.  Files
\* are numbered in path order.
find_png_files(dir) ==
    IF dir = "pics" THEN [k \in 1..DirFiles |-> k] ELSE << >>

\* Sequence a is an initial part of sequence b.
IsPrefix(a, b) == Len(a) <= Len(b) /\ a = SubSeq(b, 1, Len(a))

\* ------------------------------------------------------------ messages
\* The two numbers of a progress message put in the wrong order.
ProgressMsgSwapped(current, total) == <<"progress", total, current>>

\* The tuples _update_button_progress, _conversion_complete and _log_status
\* put on the queue (app.py lines 204-239).
ProgressMsg(current, total) == <<"progress", current, total>>
CompleteMsg(success_count, error_count) == <<"complete", success_count, error_count>>
LogMsg(text) == <<"log", text>>

\* The texts of the log lines.
OkText(i, n, f) == <<"ok", i, n, f>>
FailedText(i, n, f) == <<"failed", i, n, f>>
ErrorText(i, n, f) == <<"error", i, n, f>>
FatalText == <<"fatal">>
FoundText(n) == <<"found", n>>
StartingText(n) == <<"starting", n>>
SummaryText(s, e) == <<"summary", s, e>>
MustSelectText == <<"must_select">>
SourceSelectedText(d) == <<"source_selected", d>>
DestSelectedText(d) == <<"dest_selected", d>>

VARIABLES
    source_dir,         \* ConverterApp.source_dir: a directory or None
    dest_dir,           \* ConverterApp.dest_dir
    png_files,          \* ConverterApp.png_files: the discovered list
    source_entry,       \* text of the source entry widget
    dest_entry,         \* text of the destination entry widget
    message_queue,      \* ConverterApp.message_queue (FIFO, unbounded)
    conversion_thread,  \* ConverterApp.conversion_thread: a thread id or NoThread
    is_converting,      \* ConverterApp.is_converting
    button_text,        \* text of the convert button
    button_enabled,     \* enabled flag of the convert button
    status_text,        \* the status area: its number of lines and its last line
    threads,            \* the worker threads started so far, by thread id
    callbacks,          \* "app": the application's callables; "any": arbitrary ones
    queue_by,           \* history: the producer of each queued message (0: the UI thread)
    guard_clicks,       \* history: the branches taken by convert clicks made while is_converting
    fn                  \* a function or handler called on its own: arguments, position, result

vars == <<source_dir, dest_dir, png_files, source_entry, dest_entry,
          message_queue, conversion_thread, is_converting, button_text,
          button_enabled, status_text, threads, callbacks, queue_by,
          guard_clicks, fn>>

\* The variables of the application and its workers.
appVars == <<source_dir, dest_dir, png_files, source_entry, dest_entry,
             message_queue, conversion_thread, is_converting, button_text,
             button_enabled, status_text, threads, callbacks, queue_by,
             guard_clicks>>

uiVars == <<source_dir, dest_dir, png_files, source_entry, dest_entry,
            conversion_thread, is_converting, button_text, button_enabled,
            status_text, guard_clicks>>

\* The status area is append-only (_log_status_direct, app.py lines 213-221):
\* the model keeps how many lines it holds and the last one.
NoLines == [count |-> 0, last |-> << >>]
AppendLine(st, line) == [count |-> st.count + 1, last |-> line]
RECURSIVE AppendLines(_, _)
AppendLines(st, lines) ==
    IF Len(lines) = 0 THEN st
    ELSE AppendLines(AppendLine(st, Head(lines)), Tail(lines))

\* Button texts.
ConvertLabel == [text |-> "Convert", current |-> 0, total |-> 0]
StartingLabel == [text |-> "Starting...", current |-> 0, total |-> 0]
ConvertingLabel(c, t) == [text |-> "Converting...", current |-> c, total |-> t]

\* ------------------------------------------------------------ the worker

\* The state of one run of run_conversion_worker: its arguments and locals.
\* out, seen, tried, faults, fails, map_raised, cb_raised, aborted and crashed
\* are history fields.
NewWorker(src, dst, files) ==
    [pc            |-> IF Len(files) = 0 THEN "finally" ELSE "progress",
     source_dir    |-> src,
     dest_dir      |-> dst,
     png_files     |-> files,
     i             |-> IF Len(files) = 0 THEN 0 ELSE 1,
     success_count |-> 0,
     error_count   |-> 0,
     out           |-> << >>,   \* the messages this worker put on the channel
     seen          |-> << >>,   \* those of them the UI has applied, in that order
     tried         |-> << >>,   \* the files handed to the path mapper, in call order
     faults        |-> {},      \* files whose mapping raised or whose conversion failed or raised
     fails         |-> {},      \* files on which the converter returned false or raised
     map_raised    |-> FALSE,   \* the path mapper raised
     cb_raised     |-> FALSE,   \* a progress or log callback raised
     aborted       |-> FALSE,   \* the outer handler was entered
     crashed       |-> FALSE]   \* an exception left the worker function

\* What a call can do.  The application's callbacks are queue puts and its
\* converter catches every exception.
CallbackOutcomes == IF callbacks = "any" THEN {"ok", "raise"} ELSE {"ok"}
ConvertOutcomes ==
    IF callbacks = "any"
    THEN {"map_raise", "true", "false", "raise"}
    ELSE {"map_raise", "true", "false"}

\* The for loop running over the controller's current list (a shared, mutated
\* list) instead of the list the worker was handed.
NextIterSharedList(w) ==
    IF w.i < Len(png_files)
    THEN [w EXCEPT !.i = w.i + 1, !.pc = "progress"]
    ELSE [w EXCEPT !.pc = "finally"]

\* The for loop's next iteration, or the end of the try block.
NextIter(w) ==
    IF w.i < Len(w.png_files)
    THEN [w EXCEPT !.i = w.i + 1, !.pc = "progress"]
    ELSE [w EXCEPT !.pc = "finally"]

\* A put on the channel by producer `by` (a thread id; 0 is the UI thread).
Put(msg, by) ==
    /\ message_queue' = Append(message_queue, msg)
    /\ queue_by' = Append(queue_by, by)

NoPut == UNCHANGED <<message_queue, queue_by>>

\* Worker w after one of its callbacks ran: the message is on the channel
\* unless the callback raised.
Emitted(w, out, msg) == IF out = "ok" THEN [w EXCEPT !.out = Append(w.out, msg)] ELSE w

\* update_progress(i, len(png_files)): conversion_utils.py line 52.
ProgressStep(w, out) ==
    IF out = "ok"
    THEN [w EXCEPT !.pc = "convert"]
    ELSE [w EXCEPT !.pc = "except", !.cb_raised = TRUE]

\* The converter's return value ignored: every call that returns counts as a
\* success.
ConvertStepIgnoresResult(w, out) ==
    CASE out = "map_raise" ->
           [w EXCEPT !.pc = "except", !.map_raised = TRUE]
      [] out = "true" ->
           [w EXCEPT !.success_count = w.success_count + 1, !.pc = "log_ok"]
      [] out = "false" ->
           [w EXCEPT !.success_count = w.success_count + 1, !.pc = "log_ok",
                     !.fails = w.fails \cup {w.i}]
      [] OTHER ->
           [w EXCEPT !.pc = "except", !.fails = w.fails \cup {w.i}]

\* dest_file = transform_path_func(...), line 58, then
\* if convert_png_to_webp_func(...), lines 62-77: the counter is incremented
\* before the log callback is called.  The converter is not called when the
\* path mapper raised.
ConvertStep(w, out) ==
    CASE out = "map_raise" ->
           [w EXCEPT !.pc = "except", !.map_raised = TRUE]
      [] out = "true" ->
           [w EXCEPT !.success_count = w.success_count + 1, !.pc = "log_ok"]
      [] out = "false" ->
           [w EXCEPT !.error_count = w.error_count + 1, !.pc = "log_fail",
                     !.fails = w.fails \cup {w.i}]
      [] OTHER ->
           [w EXCEPT !.pc = "except", !.fails = w.fails \cup {w.i}]

\* History of lines 58-62: file i was handed to the path mapper, and its
\* mapping or conversion failed unless the converter returned true.
Attempted(w, out) ==
    [w EXCEPT !.tried = Append(w.tried, w.png_files[w.i]),
              !.faults = IF out = "true" THEN w.faults ELSE w.faults \cup {w.i}]

\* log_status(...) of the success or failure branch: lines 71 and 77.
LogStep(w, out) ==
    IF out = "ok"
    THEN NextIter(w)
    ELSE [w EXCEPT !.pc = "except", !.cb_raised = TRUE]

\* The text logged by the success or failure branch.
BranchText(w) ==
    IF w.pc = "log_ok"
    THEN OkText(w.i, Len(w.png_files), w.png_files[w.i])
    ELSE FailedText(w.i, Len(w.png_files), w.png_files[w.i])

\* The per-file handler placed around the for loop instead of inside it: the
\* first exception ends the loop.
ExceptStepLeavesLoop(w, out) ==
    LET c == [w EXCEPT !.error_count = w.error_count + 1]
    IN IF out = "ok"
       THEN [c EXCEPT !.pc = "finally"]
       ELSE [c EXCEPT !.pc = "fatal", !.aborted = TRUE, !.cb_raised = TRUE]

\* The per-file handler, lines 78-87: error_count += 1, then log_status; an
\* exception of that log_status leaves the for loop for the outer handler.
ExceptStep(w, out) ==
    LET c == [w EXCEPT !.error_count = w.error_count + 1]
    IN IF out = "ok"
       THEN NextIter(c)
       ELSE [c EXCEPT !.pc = "fatal", !.aborted = TRUE, !.cb_raised = TRUE]

\* The outer handler with on_complete placed after the try statement instead
\* of in a finally block: an exception of log_status ends the thread.
FatalStepNoFinally(w, out) ==
    IF out = "ok"
    THEN [w EXCEPT !.error_count =
                       w.error_count
                       + (Len(w.png_files) - w.success_count - w.error_count),
                   !.pc = "finally"]
    ELSE [w EXCEPT !.pc = "done", !.crashed = TRUE, !.cb_raised = TRUE]

\* The outer handler, lines 88-93: log_status first, then the unprocessed
\* files are folded into error_count; an exception of log_status skips the
\* fold and propagates once the finally block has run.
FatalStep(w, out) ==
    IF out = "ok"
    THEN [w EXCEPT !.error_count =
                       w.error_count
                       + (Len(w.png_files) - w.success_count - w.error_count),
                   !.pc = "finally"]
    ELSE [w EXCEPT !.pc = "finally", !.crashed = TRUE, !.cb_raised = TRUE]

\* The finally block, lines 94-107: on_complete(success_count, error_count).
FinallyStep(w) == [w EXCEPT !.pc = "done"]

WorkerFrame(t) ==
    /\ UNCHANGED uiVars
    /\ UNCHANGED <<callbacks, fn>>

\* A step of worker t that calls a callback: the worker moves to w2 and the
\* message is put unless the callback raised.
CallbackStep(t, w2, out, msg) ==
    /\ threads' = [threads EXCEPT ![t] = Emitted(w2, out, msg)]
    /\ IF out = "ok" THEN Put(msg, t) ELSE NoPut

WorkerProgress(t) ==
    /\ threads[t].pc = "progress"
    /\ \E out \in CallbackOutcomes :
          CallbackStep(t, ProgressStep(threads[t], out), out,
                       ProgressMsg(threads[t].i, Len(threads[t].png_files)))
    /\ WorkerFrame(t)

WorkerConvert(t) ==
    /\ threads[t].pc = "convert"
    /\ \E out \in ConvertOutcomes :
          threads' = [threads EXCEPT
                         ![t] = Attempted(ConvertStep(threads[t], out), out)]
    /\ NoPut
    /\ WorkerFrame(t)

WorkerLog(t) ==
    /\ threads[t].pc \in {"log_ok", "log_fail"}
    /\ \E out \in CallbackOutcomes :
          CallbackStep(t, LogStep(threads[t], out), out,
                       LogMsg(BranchText(threads[t])))
    /\ WorkerFrame(t)

WorkerExcept(t) ==
    /\ threads[t].pc = "except"
    /\ \E out \in CallbackOutcomes :
          CallbackStep(t, ExceptStep(threads[t], out), out,
                       LogMsg(ErrorText(threads[t].i, Len(threads[t].png_files),
                                        threads[t].png_files[threads[t].i])))
    /\ WorkerFrame(t)

WorkerFatal(t) ==
    /\ threads[t].pc = "fatal"
    /\ \E out \in CallbackOutcomes :
          CallbackStep(t, FatalStep(threads[t], out), out, LogMsg(FatalText))
    /\ WorkerFrame(t)

\* The finally block sending a closing log line after on_complete.
WorkerFinallyThenLog(t) ==
    /\ threads[t].pc = "finally"
    /\ LET c == CompleteMsg(threads[t].success_count, threads[t].error_count)
           l == LogMsg(FatalText)
       IN /\ threads' = [threads EXCEPT
                            ![t] = [FinallyStep(threads[t]) EXCEPT
                                       !.out = threads[t].out \o << c, l >>]]
          /\ message_queue' = message_queue \o << c, l >>
          /\ queue_by' = queue_by \o << t, t >>
    /\ WorkerFrame(t)

\* on_complete resetting the guard flag and the worker handle itself, on the
\* worker thread, besides putting its message.
WorkerFinallyResetsGuard(t) ==
    /\ threads[t].pc = "finally"
    /\ CallbackStep(t, FinallyStep(threads[t]), "ok",
                    CompleteMsg(threads[t].success_count, threads[t].error_count))
    /\ is_converting' = FALSE
    /\ conversion_thread' = NoThread
    /\ UNCHANGED <<source_dir, dest_dir, png_files, source_entry, dest_entry,
                   button_text, button_enabled, status_text, guard_clicks,
                   callbacks, fn>>

\* The worker ending without calling on_complete.
WorkerFinallySilent(t) ==
    /\ threads[t].pc = "finally"
    /\ threads' = [threads EXCEPT ![t] = FinallyStep(threads[t])]
    /\ NoPut
    /\ WorkerFrame(t)

WorkerFinally(t) ==
    /\ threads[t].pc = "finally"
    /\ CallbackStep(t, FinallyStep(threads[t]), "ok",
                    CompleteMsg(threads[t].success_count, threads[t].error_count))
    /\ WorkerFrame(t)

\* ------------------------------------------------------ the UI controller

\* _update_convert_button_state: app.py lines 197-202.
ConvertEnabled(src, dst) == src # None /\ dst # None

\* The entry text taken as the source directory without the exists() and
\* is_dir() tests.
SourceDirOfUnchecked(text) == IF text # "" THEN text ELSE None

\* _on_source_change, lines 169-185: the source directory the entry text gives.
SourceDirOf(text) == IF text # "" /\ IsDir(text) THEN text ELSE None

\* The discovery leaving the list as it is when the source is not a directory.
DiscoveredKeepsList(src) ==
    IF src # None /\ IsDir(src) THEN find_png_files(src) ELSE png_files

\* _discover_png_files, lines 296-304: the file list, and the line it logs.
Discovered(src) == IF src # None /\ IsDir(src) THEN find_png_files(src) ELSE << >>
DiscoverLines(src) ==
    IF src # None /\ IsDir(src)
    THEN << FoundText(Len(find_png_files(src))) >>
    ELSE << >>

\* _on_dest_change, lines 187-195.
DestDirOf(text) == IF text # "" THEN text ELSE None

\* The model stops taking user operations that add lines to the status area
\* (directly, or through the channel) once it holds MaxLines lines, counting
\* the messages still queued.
Room(lines) == status_text.count + Len(message_queue) + Len(lines) <= MaxLines

\* The user edits the source entry: textChanged runs _on_source_change.
OnSourceChange(text) ==
    /\ text # source_entry
    /\ Room(DiscoverLines(SourceDirOf(text)))
    /\ source_entry' = text
    /\ source_dir' = SourceDirOf(text)
    /\ png_files' = Discovered(SourceDirOf(text))
    /\ status_text' = AppendLines(status_text, DiscoverLines(SourceDirOf(text)))
    /\ button_enabled' = ConvertEnabled(SourceDirOf(text), dest_dir)
    /\ NoPut
    /\ UNCHANGED <<dest_dir, dest_entry, conversion_thread, is_converting,
                   button_text, threads, callbacks, guard_clicks, fn>>

\* The user edits the destination entry: textChanged runs _on_dest_change.
OnDestChange(text) ==
    /\ text # dest_entry
    /\ dest_entry' = text
    /\ dest_dir' = DestDirOf(text)
    /\ button_enabled' = ConvertEnabled(source_dir, DestDirOf(text))
    /\ NoPut
    /\ UNCHANGED <<source_dir, png_files, source_entry, conversion_thread,
                   is_converting, button_text, status_text, threads,
                   callbacks, guard_clicks, fn>>

\* _browse_source, lines 144-155, with a folder chosen in the dialog.  setText
\* emits textChanged when the text differs, which runs _on_source_change
\* (and its discovery) before the handler's own discovery; the "selected"
\* line goes through the channel (_log_status), the "Found" lines do not.
BrowseSource(folder) ==
    /\ Room((IF source_entry # folder THEN DiscoverLines(folder) ELSE << >>)
            \o DiscoverLines(folder) \o << SourceSelectedText(folder) >>)
    /\ source_dir' = folder
    /\ source_entry' = folder
    /\ png_files' = Discovered(folder)
    /\ status_text' =
           AppendLines(status_text,
                       (IF source_entry # folder THEN DiscoverLines(folder) ELSE << >>)
                       \o DiscoverLines(folder))
    /\ button_enabled' = ConvertEnabled(folder, dest_dir)
    /\ Put(LogMsg(SourceSelectedText(folder)), 0)
    /\ UNCHANGED <<dest_dir, dest_entry, conversion_thread, is_converting,
                   button_text, threads, callbacks, guard_clicks, fn>>

\* _browse_dest, lines 157-167.
BrowseDest(folder) ==
    /\ Room(<< DestSelectedText(folder) >>)
    /\ dest_dir' = folder
    /\ dest_entry' = folder
    /\ button_enabled' = ConvertEnabled(source_dir, folder)
    /\ Put(LogMsg(DestSelectedText(folder)), 0)
    /\ UNCHANGED <<source_dir, png_files, source_entry, conversion_thread,
                   is_converting, button_text, status_text, threads,
                   callbacks, guard_clicks, fn>>

\* The error line of a refused request sent through the channel (_log_status)
\* instead of written directly.
ClickInvalidQueued ==
    /\ Room(<< MustSelectText >>)
    /\ Put(LogMsg(MustSelectText), 0)
    /\ UNCHANGED <<status_text, is_converting, button_text, button_enabled,
                   conversion_thread, threads>>

\* _on_convert_click, lines 308-313: the request is refused with an error line.
ClickInvalid ==
    /\ Room(<< MustSelectText >>)
    /\ status_text' = AppendLine(status_text, MustSelectText)
    /\ NoPut
    /\ UNCHANGED <<is_converting, button_text, button_enabled,
                   conversion_thread, threads>>

\* The ignored request reported through the channel instead of print().
ClickIgnoredLogged ==
    /\ Put(LogMsg(<<"in_progress">>), 0)
    /\ UNCHANGED <<status_text, is_converting, button_text, button_enabled,
                   conversion_thread, threads>>

\* _on_convert_click, lines 315-318: the request is ignored.
ClickIgnored ==
    /\ NoPut
    /\ UNCHANGED <<status_text, is_converting, button_text, button_enabled,
                   conversion_thread, threads>>

\* _on_convert_click, lines 320-356: the batch starts on a new thread, which
\* is handed the current roots and file list.
ClickStart ==
    /\ Len(threads) < MaxThreads
    /\ Room(<< StartingText(Len(png_files)) >>)
    /\ is_converting' = TRUE
    /\ button_text' = StartingLabel
    /\ button_enabled' = FALSE
    /\ status_text' = AppendLine(status_text, StartingText(Len(png_files)))
    /\ threads' = Append(threads, NewWorker(source_dir, dest_dir, png_files))
    /\ conversion_thread' = Len(threads) + 1
    /\ NoPut

\* The guard left out.
GuardNever == FALSE

\* The guard of lines 315-316.
GuardRejects == is_converting

\* The validation without its test of the file list.
ClickBranchIgnoresFileList ==
    IF source_dir = None \/ dest_dir = None
    THEN "invalid"
    ELSE IF GuardRejects THEN "ignored" ELSE "start"

\* The branch of _on_convert_click the current state selects.
ClickBranch ==
    IF source_dir = None \/ dest_dir = None \/ Len(png_files) = 0
    THEN "invalid"
    ELSE IF GuardRejects THEN "ignored" ELSE "start"

\* _on_convert_click, lines 306-356.  A disabled button emits no click.
OnConvertClick ==
    /\ button_enabled
    /\ guard_clicks' = IF is_converting
                       THEN guard_clicks \cup {ClickBranch}
                       ELSE guard_clicks
    /\ CASE ClickBranch = "invalid" -> ClickInvalid
         [] ClickBranch = "ignored" -> ClickIgnored
         [] ClickBranch = "start" -> ClickStart
    /\ UNCHANGED <<source_dir, dest_dir, png_files, source_entry, dest_entry,
                   callbacks, fn>>

\* A LIFO queue: the newest message is taken first.
get_newest(q) == [msg |-> q[Len(q)], rest |-> SubSeq(q, 1, Len(q) - 1)]

\* message_queue.get_nowait(): the oldest message and the rest of the queue.
get_nowait(q) == [msg |-> Head(q), rest |-> Tail(q)]

\* The state _process_queue works on.
Display ==
    [status_text       |-> status_text,
     button_text       |-> button_text,
     button_enabled    |-> button_enabled,
     is_converting     |-> is_converting,
     conversion_thread |-> conversion_thread,
     threads           |-> threads]

\* Complete applied without resetting the guard flag and the worker handle.
ApplyMessageKeepsGuard(d, message, by) ==
    LET e == IF by = 0 THEN d
             ELSE [d EXCEPT !.threads[by].seen = Append(@, message)]
    IN CASE message[1] = "log" ->
              [e EXCEPT !.status_text = AppendLine(@, message[2])]
         [] message[1] = "progress" ->
              [e EXCEPT !.button_text = ConvertingLabel(message[2], message[3]),
                        !.button_enabled = FALSE]
         [] message[1] = "complete" ->
              [e EXCEPT !.button_text = ConvertLabel,
                        !.button_enabled = TRUE,
                        !.status_text =
                            AppendLine(@, SummaryText(message[2], message[3]))]

\* _process_queue, lines 257-282: one message applied.  `by` is the
\* message's producer; it only feeds the history field seen.
ApplyMessage(d, message, by) ==
    LET e == IF by = 0 THEN d
             ELSE [d EXCEPT !.threads[by].seen = Append(@, message)]
    IN CASE message[1] = "log" ->
              [e EXCEPT !.status_text = AppendLine(@, message[2])]
         [] message[1] = "progress" ->
              [e EXCEPT !.button_text = ConvertingLabel(message[2], message[3]),
                        !.button_enabled = FALSE]
         [] message[1] = "complete" ->
              [e EXCEPT !.button_text = ConvertLabel,
                        !.button_enabled = TRUE,
                        !.status_text =
                            AppendLine(@, SummaryText(message[2], message[3])),
                        !.is_converting = FALSE,
                        !.conversion_thread = NoThread]

\* The while loop of _process_queue, lines 251-284: get_nowait until
\* queue.Empty, each message applied as it is taken.
RECURSIVE Drain(_, _, _)
Drain(d, q, qb) ==
    IF Len(q) = 0 THEN d
    ELSE Drain(ApplyMessage(d, get_nowait(q).msg, get_nowait(qb).msg),
               get_nowait(q).rest, get_nowait(qb).rest)

\* _process_queue, lines 241-294: a poll that finds messages.  (A poll of
\* the empty channel changes nothing.)
ProcessQueue ==
    /\ Len(message_queue) > 0
    /\ LET d == Drain(Display, message_queue, queue_by)
       IN /\ status_text' = d.status_text
          /\ button_text' = d.button_text
          /\ button_enabled' = d.button_enabled
          /\ is_converting' = d.is_converting
          /\ conversion_thread' = d.conversion_thread
          /\ threads' = d.threads
    /\ message_queue' = << >>
    /\ queue_by' = << >>
    /\ UNCHANGED <<source_dir, dest_dir, png_files, source_entry, dest_entry,
                   callbacks, guard_clicks, fn>>

\* ----------------------------------------------- the format converter
\* convert_png_to_webp(source, dest): main.py lines 408-441.

\* What the source path names: nothing, a directory, a PNG file, or a regular
\* file the codec cannot decode.
SourceKinds == {"missing", "dir", "png", "corrupt"}
\* The destination's parent: an existing directory, not there yet, or
\* impossible to create (a regular file is in the way, or no permission).
ParentKinds == {"exists", "absent", "blocked"}

\* The exceptions the steps raise, and the classes `except Exception` catches:
\* all of them derive from Exception.
OSErrors == {"PermissionError", "FileExistsError", "OSError"}
ImageErrors == {"UnidentifiedImageError"}
CaughtOnlyOSError(exc) == exc \in OSErrors
Caught(exc) == exc \in OSErrors \cup ImageErrors

\* A call of the converter before its first statement.  stat_denied: the
\* existence check itself fails; writable: the destination file can be
\* written; done is a history field (the steps completed without raising).
ConverterCall(src, parent, denied, writable) ==
    [name        |-> "convert_png_to_webp",
     source      |-> src,
     dest_parent |-> parent,
     stat_denied |-> denied,
     writable    |-> writable,
     dest_file   |-> "absent",
     pc          |-> "check",
     exc         |-> None,
     result      |-> None,
     done        |-> {}]

ConverterFrame == UNCHANGED appVars

\* A statement of the try block raised.
Raise(c, exc) == [c EXCEPT !.pc = "except", !.exc = exc]

\* Lines 424-425: if not source.exists() or not source.is_file(): return False.
ConvertCheck ==
    /\ fn.name = "convert_png_to_webp"
    /\ fn.pc = "check"
    /\ fn' = IF fn.stat_denied THEN Raise(fn, "PermissionError")
             ELSE IF fn.source \in {"missing", "dir"}
             THEN [fn EXCEPT !.pc = "returned", !.result = FALSE,
                             !.done = fn.done \cup {"check"}]
             ELSE [fn EXCEPT !.pc = "mkdir", !.done = fn.done \cup {"check"}]
    /\ ConverterFrame

\* Line 429: dest.parent.mkdir(parents=True, exist_ok=True).
ConvertMkdir ==
    /\ fn.name = "convert_png_to_webp"
    /\ fn.pc = "mkdir"
    /\ fn' = IF fn.dest_parent = "blocked" THEN Raise(fn, "FileExistsError")
             ELSE [fn EXCEPT !.pc = "open", !.dest_parent = "exists",
                             !.done = fn.done \cup {"mkdir"}]
    /\ ConverterFrame

\* Line 432: Image.open(source).
ConvertOpen ==
    /\ fn.name = "convert_png_to_webp"
    /\ fn.pc = "open"
    /\ fn' = IF fn.source = "corrupt" THEN Raise(fn, "UnidentifiedImageError")
             ELSE [fn EXCEPT !.pc = "save", !.done = fn.done \cup {"open"}]
    /\ ConverterFrame

\* A failed save treated as a success.
ConvertSaveIgnoresError ==
    /\ fn.name = "convert_png_to_webp"
    /\ fn.pc = "save"
    /\ fn' = IF fn.writable
             THEN [fn EXCEPT !.pc = "returned", !.result = TRUE,
                             !.dest_file = "webp",
                             !.done = fn.done \cup {"save"}]
             ELSE [fn EXCEPT !.pc = "returned", !.result = TRUE]
    /\ ConverterFrame

\* Lines 435-437: img.save(dest, "WEBP", quality=WEBP_QUALITY); return True.
ConvertSave ==
    /\ fn.name = "convert_png_to_webp"
    /\ fn.pc = "save"
    /\ fn' = IF fn.writable
             THEN [fn EXCEPT !.pc = "returned", !.result = TRUE,
                             !.dest_file = "webp",
                             !.done = fn.done \cup {"save"}]
             ELSE Raise(fn, "OSError")
    /\ ConverterFrame

\* Lines 438-441: except Exception: return False.  An exception the clause
\* does not catch leaves the function.
ConvertExcept ==
    /\ fn.name = "convert_png_to_webp"
    /\ fn.pc = "except"
    /\ fn' = IF Caught(fn.exc)
             THEN [fn EXCEPT !.pc = "returned", !.result = FALSE]
             ELSE [fn EXCEPT !.pc = "raised"]
    /\ ConverterFrame

\* ------------------------------------------------------ the path mapper
\* transform_path(source_path, source_root, dest_root): main.py lines 365-405.
\*
\* A file or directory name is the sequence of its dot-separated pieces
\* ("a.b.png" is <<"a", "b", "png">>); a path is a record of its anchor
\* (absolute or relative) and the sequence of its names.

DirNames == << <<"a">>, <<"b">>, <<"c">>, <<"d">> >>
\* The subdirectory chains d below a root: none, a, a/b, ...
Subdirs == {SubSeq(DirNames, 1, k) : k \in 0..MaxDepth}
\* File names the discoverer can return: both spellings of the extension,
\* and stems that contain dots.
FileNames == { <<"image", "png">>, <<"image", "PNG">>,
               <<"x", "png">>, <<"x", "PNG">>,
               <<"a", "b", "png">>, <<"a", "c", "png">> }

AbsPath(parts) == [abs |-> TRUE, parts |-> parts]
RelPath(parts) == [abs |-> FALSE, parts |-> parts]
\* The / operator of pathlib.
JoinPath(p, parts) == [abs |-> p.abs, parts |-> p.parts \o parts]

\* The filesystem states resolve() depends on: the working directory, and at
\* most one symbolic link (a directory below /src that points outside it).
NoLink == [from |-> << >>, to |-> << >>]
DirLink == [from |-> << <<"src">>, <<"a">> >>, to |-> << <<"vault">> >>]
FileSystems == {[cwd |-> c, link |-> l] :
                   c \in { << <<"home">> >>, << >> }, l \in {NoLink, DirLink}}

\* The roots as the caller can spell them, and the files handed to the
\* mapper: those below the source root (as the discoverer returns them,
\* prefixed with the root as given) and files that lie elsewhere.
SourceRoots == {AbsPath(<< <<"src">> >>), RelPath(<< <<"src">> >>)}
DestRoots == {AbsPath(<< <<"dst">> >>)}
FilesUnder(root) ==
    {JoinPath(root, d \o << n >>) : d \in Subdirs, n \in FileNames}
FilesElsewhere ==
    {AbsPath(<< <<"other">>, n >>) : n \in { <<"x", "png">>, <<"a", "b", "png">> }}

\* Path.resolve(): the absolute path, symbolic links followed.
resolve(p, fs) ==
    LET full == IF p.abs THEN p.parts ELSE fs.cwd \o p.parts
        l == fs.link
    IN IF l.from # << >> /\ IsPrefix(l.from, full)
       THEN l.to \o SubSeq(full, Len(l.from) + 1, Len(full))
       ELSE full

\* PurePath.stem of a name: the name without its suffix, which is what
\* follows the last dot.
stem(n) == IF Len(n) >= 2 THEN SubSeq(n, 1, Len(n) - 1) ELSE n

\* Path(name).with_suffix(ext): the name's suffix, if it has one, replaced.
with_suffix(n, ext) == Append(stem(n), ext)

\* transform_path.  When relative_to raises ValueError, relative_path is
\* bound to source_path.name, a str, and relative_path.stem (line 395)
\* raises AttributeError.
transform_path(source_path, source_root, dest_root, fs) ==
    LET sp == resolve(source_path, fs)
        sr == resolve(source_root, fs)
        dr == resolve(dest_root, fs)
    IN IF ~(IsPrefix(sr, sp) /\ Len(sp) > Len(sr))
       THEN [exc |-> "AttributeError", path |-> << >>]
       ELSE LET relative_path == SubSeq(sp, Len(sr) + 1, Len(sp))
                parent == SubSeq(relative_path, 1, Len(relative_path) - 1)
                dest_name == with_suffix(stem(relative_path[Len(relative_path)]),
                                         "webp")
                dest_relative == IF parent # << >>
                                 THEN Append(parent, dest_name)
                                 ELSE << dest_name >>
            IN [exc |-> None, path |-> dr \o dest_relative]

\* A batch of calls of the mapper with fixed roots under one filesystem state.
MapperCall(fs, source_root, dest_root, files) ==
    [name        |-> "transform_path",
     fs          |-> fs,
     source_root |-> source_root,
     dest_root   |-> dest_root,
     files       |-> files,
     results     |-> << >>]

\* The mapper is called for the next file of the batch.
TransformPath ==
    /\ fn.name = "transform_path"
    /\ Len(fn.results) < Len(fn.files)
    /\ fn' = [fn EXCEPT !.results =
                 Append(fn.results,
                        transform_path(fn.files[Len(fn.results) + 1],
                                       fn.source_root, fn.dest_root, fn.fs))]
    /\ UNCHANGED appVars

\* ---------------------------------------------------- the file discoverer
\* find_png_files(source_dir): main.py lines 338-362, on a directory tree.
\* (The operator find_png_files above is this function on the two
\* directories of the application's environment.)

\* What can lie below the root: files with each spelling of the extension,
\* a file of another type, and a directory whose name ends in .png.
TreeFileNames == { <<"x", "png">>, <<"y", "PNG">>, <<"z", "Png">>, <<"n", "txt">> }
TreeDirNames == { <<"d", "png">> }
Entries ==
    {[dir |-> d, name |-> n, kind |-> "file"] : d \in Subdirs, n \in TreeFileNames}
    \cup {[dir |-> d, name |-> n, kind |-> "dir"] : d \in Subdirs, n \in TreeDirNames}
Trees == {t \in SUBSET Entries : Cardinality(t) <= MaxEntries}

\* The path rglob yields for an entry: the root, its subdirectories, its name.
EntryPath(e) == << <<"src">> >> \o e.dir \o << e.name >>

\* Pattern matching of pathlib's glob: case-sensitive with the POSIX flavour
\* (Linux, macOS), case-insensitive with the Windows flavour.
Flavours == {"posix", "windows"}
Lower(ext) == IF ext \in {"png", "PNG", "Png"} THEN "png" ELSE ext
Matches(pattern_ext, n, flavour) ==
    /\ Len(n) >= 2
    /\ IF flavour = "windows"
       THEN Lower(n[Len(n)]) = Lower(pattern_ext)
       ELSE n[Len(n)] = pattern_ext

\* source_dir.rglob("*." + ext): the entries at any depth whose name matches.
\* The order in which they are yielded is the directory listing's.
rglob(tree, pattern_ext, flavour) ==
    {e \in tree : Matches(pattern_ext, e.name, flavour)}
Orders(S) ==
    {o \in [1..Cardinality(S) -> S] : \A i, j \in DOMAIN o : i # j => o[i] # o[j]}

\* The order of str on the names used here, and the order of Path: the
\* sequences of names compared lexicographically.
NameOrder == << <<"a">>, <<"b">>, <<"c">>, <<"d">>, <<"d", "png">>, <<"n", "txt">>,
                <<"src">>, <<"x", "png">>, <<"y", "PNG">>, <<"z", "Png">> >>
Rank(n) == CHOOSE k \in DOMAIN NameOrder : NameOrder[k] = n
RECURSIVE PathLess(_, _)
PathLess(p, q) ==
    IF Len(p) = 0 THEN Len(q) > 0
    ELSE IF Len(q) = 0 THEN FALSE
    ELSE IF Head(p) = Head(q) THEN PathLess(Tail(p), Tail(q))
    ELSE Rank(Head(p)) < Rank(Head(q))

\* sorted(png_files).
sorted(paths) == SortSeq(paths, PathLess)

\* Lines 353-355: the first loop appends the matches of *.png that are files.
FirstPass(o1) ==
    [k \in DOMAIN SelectSeq(o1, LAMBDA e : e.kind = "file") |->
        EntryPath(SelectSeq(o1, LAMBDA e : e.kind = "file")[k])]

\* The second loop without its membership test.
SecondPassNoMembershipTest(png, o2) ==
    png \o [k \in DOMAIN SelectSeq(o2, LAMBDA e : e.kind = "file") |->
               EntryPath(SelectSeq(o2, LAMBDA e : e.kind = "file")[k])]

\* Lines 358-360: the second loop appends the matches of *.PNG that are files
\* and are not in the list yet.
SecondPass(png, o2) ==
    LET new == SelectSeq(o2, LAMBDA e :
                   /\ e.kind = "file"
                   /\ \A k \in DOMAIN png : png[k] # EntryPath(e))
    IN png \o [k \in DOMAIN new |-> EntryPath(new[k])]

\* find_png_files on root kind `root`, with the two globs yielding their
\* matches in the orders o1 and o2.
find_png_files_in(root, o1, o2) ==
    IF root # "dir" THEN << >>
    ELSE sorted(SecondPass(FirstPass(o1), o2))

\* Calls of the discoverer on one filesystem state.  root: what the root path
\* names ("dir", "missing" or "file").
DiscovererCall(root, tree, flavour) ==
    [name    |-> "find_png_files",
     root    |-> root,
     tree    |-> tree,
     flavour |-> flavour,
     results |-> << >>]

\* The discoverer is called (at most twice on the same filesystem state).
FindPngFiles ==
    /\ fn.name = "find_png_files"
    /\ Len(fn.results) < 2
    /\ \E o1 \in Orders(rglob(fn.tree, "png", fn.flavour)),
          o2 \in Orders(rglob(fn.tree, "PNG", fn.flavour)) :
          fn' = [fn EXCEPT !.results =
                    Append(fn.results,
                           [exc |-> None,
                            files |-> find_png_files_in(fn.root, o1, o2)])]
    /\ UNCHANGED appVars

\* ------------------------------------------------------ the polling tick
\* _process_queue step by step (app.py lines 241-294), with producers that
\* put messages at any time and messages whose application may raise (a
\* tuple with too few fields, for instance).  (ProcessQueue above is the same
\* handler taken as one step, for the messages of the application's own
\* callbacks, whose application does not raise.)

\* The messages a producer can put.
TickMessages == {LogMsg(OkText(1, 1, 1)), ProgressMsg(1, 1), CompleteMsg(1, 0)}
ErrorProcessingText == <<"error_processing_queue">>

\* The handler between two ticks: the timer armed by the last line of the
\* previous tick (or by __init__, line 71).  at_start, applied, raised, ticks
\* and puts are history fields.
TickIdle ==
    [name      |-> "_process_queue",
     pc        |-> "idle",
     scheduled |-> TRUE,
     at_start  |-> << >>,
     applied   |-> << >>,
     raised    |-> FALSE,
     ticks     |-> 0,
     puts      |-> 0]

TickFrame ==
    UNCHANGED <<source_dir, dest_dir, png_files, source_entry, dest_entry,
                callbacks, guard_clicks>>
TickDisplayUnchanged ==
    UNCHANGED <<status_text, button_text, button_enabled, is_converting,
                conversion_thread, threads>>

\* A producer puts a message, between ticks or while one is running.
TickPut ==
    /\ fn.name = "_process_queue"
    /\ fn.puts < MaxPuts
    /\ \E m \in TickMessages : Put(m, 0)
    /\ fn' = [fn EXCEPT !.puts = fn.puts + 1]
    /\ TickDisplayUnchanged
    /\ TickFrame

\* The single-shot timer fires: _process_queue is entered.
TickStart ==
    /\ fn.name = "_process_queue"
    /\ fn.pc = "idle"
    /\ fn.scheduled
    /\ fn.ticks < MaxTicks
    /\ fn' = [fn EXCEPT !.pc = "loop", !.scheduled = FALSE,
                        !.at_start = message_queue, !.applied = << >>,
                        !.raised = FALSE, !.ticks = fn.ticks + 1]
    /\ NoPut
    /\ TickDisplayUnchanged
    /\ TickFrame

\* Lines 253-282: get_nowait() returned a message and it is applied; if
\* applying it raises, the while loop is left for the handler (the message
\* is gone, its effect is not made).
TickApply ==
    /\ fn.name = "_process_queue"
    /\ fn.pc = "loop"
    /\ Len(message_queue) > 0
    /\ message_queue' = get_nowait(message_queue).rest
    /\ queue_by' = get_nowait(queue_by).rest
    /\ \E out \in {"ok", "raise"} :
          IF out = "ok"
          THEN LET d == ApplyMessage(Display, get_nowait(message_queue).msg,
                                     get_nowait(queue_by).msg)
               IN /\ status_text' = d.status_text
                  /\ button_text' = d.button_text
                  /\ button_enabled' = d.button_enabled
                  /\ is_converting' = d.is_converting
                  /\ conversion_thread' = d.conversion_thread
                  /\ threads' = d.threads
                  /\ fn' = [fn EXCEPT !.applied =
                               Append(fn.applied, get_nowait(message_queue).msg)]
          ELSE /\ TickDisplayUnchanged
               /\ fn' = [fn EXCEPT !.pc = "handler", !.raised = TRUE]
    /\ TickFrame

\* Lines 283-284: get_nowait() raised queue.Empty: break.
TickEmpty ==
    /\ fn.name = "_process_queue"
    /\ fn.pc = "loop"
    /\ Len(message_queue) = 0
    /\ fn' = [fn EXCEPT !.pc = "schedule"]
    /\ NoPut
    /\ TickDisplayUnchanged
    /\ TickFrame

\* The handler letting the exception leave _process_queue.
TickHandlerReraises ==
    /\ fn.name = "_process_queue"
    /\ fn.pc = "handler"
    /\ fn' = [fn EXCEPT !.pc = "raised"]
    /\ NoPut
    /\ TickDisplayUnchanged
    /\ TickFrame

\* Lines 285-288: except Exception: the error is written to the status area.
TickHandler ==
    /\ fn.name = "_process_queue"
    /\ fn.pc = "handler"
    /\ status_text' = AppendLine(status_text, ErrorProcessingText)
    /\ fn' = [fn EXCEPT !.pc = "schedule"]
    /\ NoPut
    /\ UNCHANGED <<button_text, button_enabled, is_converting,
                   conversion_thread, threads>>
    /\ TickFrame

\* Line 294: QTimer.singleShot(100, self._process_queue).
TickSchedule ==
    /\ fn.name = "_process_queue"
    /\ fn.pc = "schedule"
    /\ fn' = [fn EXCEPT !.pc = "idle", !.scheduled = TRUE]
    /\ NoPut
    /\ TickDisplayUnchanged
    /\ TickFrame

\* ------------------------------------------------- the two worker variants
\* ConverterApp._convert_worker of src/main.py (lines 291-335), the worker of
\* the tkinter variant, beside run_conversion_worker.  Its callbacks are the
\* methods of main.py lines 170-202, which put the same tuples on the queue.

\* The tuples put by main.py lines 177, 193 and 202.
TkProgressMsg(current, total) == <<"progress", current, total>>
TkCompleteMsg(success_count, error_count) == <<"complete", success_count, error_count>>
TkLogMsg(text) == <<"log", text>>

\* The texts of main.py lines 319, 322, 326-328 and 331.
TkOkText(i, n, f) == <<"ok", i, n, f>>
TkFailedText(i, n, f) == <<"failed", i, n, f>>
TkErrorText(i, n, f) == <<"error", i, n, f>>
TkFatalText == <<"fatal">>

\* for i, source_file in enumerate(png_files, 1): main.py line 308.
TkNextIter(w) ==
    IF w.i < Len(w.png_files)
    THEN [w EXCEPT !.i = w.i + 1, !.pc = "progress"]
    ELSE [w EXCEPT !.pc = "finally"]

\* self._update_button_progress(i, len(png_files)): main.py line 311.
TkProgressStep(w, out) ==
    IF out = "ok"
    THEN [w EXCEPT !.pc = "convert"]
    ELSE [w EXCEPT !.pc = "except", !.cb_raised = TRUE]

\* main.py lines 314-322: transform_path, then convert_png_to_webp and the
\* counter of the branch taken.
TkConvertStep(w, out) ==
    CASE out = "map_raise" ->
           [w EXCEPT !.pc = "except", !.map_raised = TRUE]
      [] out = "true" ->
           [w EXCEPT !.success_count = w.success_count + 1, !.pc = "log_ok"]
      [] out = "false" ->
           [w EXCEPT !.error_count = w.error_count + 1, !.pc = "log_fail"]
      [] OTHER ->
           [w EXCEPT !.pc = "except"]

\* self._log_status(...) of main.py lines 319 and 322.
TkLogStep(w, out) ==
    IF out = "ok"
    THEN TkNextIter(w)
    ELSE [w EXCEPT !.pc = "except", !.cb_raised = TRUE]

TkBranchText(w) ==
    IF w.pc = "log_ok"
    THEN TkOkText(w.i, Len(w.png_files), w.png_files[w.i])
    ELSE TkFailedText(w.i, Len(w.png_files), w.png_files[w.i])

\* The per-file handler, main.py lines 323-328.
TkExceptStep(w, out) ==
    LET c == [w EXCEPT !.error_count = w.error_count + 1]
    IN IF out = "ok"
       THEN TkNextIter(c)
       ELSE [c EXCEPT !.pc = "fatal", !.aborted = TRUE, !.cb_raised = TRUE]

\* The outer handler without its fold of the unprocessed files.
TkFatalStepNoFold(w, out) ==
    IF out = "ok"
    THEN [w EXCEPT !.pc = "finally"]
    ELSE [w EXCEPT !.pc = "finally", !.crashed = TRUE, !.cb_raised = TRUE]

\* The outer handler, main.py lines 329-332: the log call, then the fold.
TkFatalStep(w, out) ==
    IF out = "ok"
    THEN [w EXCEPT !.error_count =
                       w.error_count
                       + (Len(w.png_files) - w.success_count - w.error_count),
                   !.pc = "finally"]
    ELSE [w EXCEPT !.pc = "finally", !.crashed = TRUE, !.cb_raised = TRUE]

\* The finally block, main.py lines 333-335.
TkFinallyStep(w) == [w EXCEPT !.pc = "done"]

\* One step of _convert_worker: cb is the outcome of the callback the step
\* calls, convert the outcome of the mapper and converter for each file.
TkWorkerStep(w, cb, convert) ==
    CASE w.pc = "progress" ->
           Emitted(TkProgressStep(w, cb), cb,
                   TkProgressMsg(w.i, Len(w.png_files)))
      [] w.pc = "convert" -> TkConvertStep(w, convert[w.i])
      [] w.pc \in {"log_ok", "log_fail"} ->
           Emitted(TkLogStep(w, cb), cb, TkLogMsg(TkBranchText(w)))
      [] w.pc = "except" ->
           Emitted(TkExceptStep(w, cb), cb,
                   TkLogMsg(TkErrorText(w.i, Len(w.png_files), w.png_files[w.i])))
      [] w.pc = "fatal" ->
           Emitted(TkFatalStep(w, cb), cb, TkLogMsg(TkFatalText))
      [] OTHER ->
           Emitted(TkFinallyStep(w), "ok",
                   TkCompleteMsg(w.success_count, w.error_count))

\* One step of run_conversion_worker under the same outcomes.
RunWorkerStep(w, cb, convert) ==
    CASE w.pc = "progress" ->
           Emitted(ProgressStep(w, cb), cb, ProgressMsg(w.i, Len(w.png_files)))
      [] w.pc = "convert" ->
           Attempted(ConvertStep(w, convert[w.i]), convert[w.i])
      [] w.pc \in {"log_ok", "log_fail"} ->
           Emitted(LogStep(w, cb), cb, LogMsg(BranchText(w)))
      [] w.pc = "except" ->
           Emitted(ExceptStep(w, cb), cb,
                   LogMsg(ErrorText(w.i, Len(w.png_files), w.png_files[w.i])))
      [] w.pc = "fatal" ->
           Emitted(FatalStep(w, cb), cb, LogMsg(FatalText))
      [] OTHER ->
           Emitted(FinallyStep(w), "ok",
                   CompleteMsg(w.success_count, w.error_count))

\* The step at w's position calls update_progress or log_status.
CallsBack(w) == w.pc \in {"progress", "log_ok", "log_fail", "except", "fatal"}

\* Both workers are given the same roots, file list and outcomes: convert[i]
\* is what the path mapper and converter do for file i, and the k-th call of a
\* progress or log callback raises when k is in raises.  calls counts the
\* callback calls each worker has made.
WorkersCall(files, convert, raises) ==
    [name |-> "workers", png_files |-> files, convert |-> convert,
     raises |-> raises, calls |-> <<0, 0>>]

CallOutcome(k) == IF k \in fn.raises THEN "raise" ELSE "ok"

WorkersFrame ==
    /\ UNCHANGED uiVars
    /\ UNCHANGED <<message_queue, queue_by, callbacks>>

\* threads[1] runs run_conversion_worker.
RunConversionWorker ==
    /\ threads[1].pc # "done"
    /\ threads' = [threads EXCEPT
                      ![1] = RunWorkerStep(threads[1],
                                           CallOutcome(fn.calls[1] + 1),
                                           fn.convert)]
    /\ fn' = IF CallsBack(threads[1])
             THEN [fn EXCEPT !.calls[1] = fn.calls[1] + 1]
             ELSE fn
    /\ WorkersFrame

\* threads[2] runs _convert_worker.
TkConvertWorker ==
    /\ threads[2].pc # "done"
    /\ threads' = [threads EXCEPT
                      ![2] = TkWorkerStep(threads[2],
                                          CallOutcome(fn.calls[2] + 1),
                                          fn.convert)]
    /\ fn' = IF CallsBack(threads[2])
             THEN [fn EXCEPT !.calls[2] = fn.calls[2] + 1]
             ELSE fn
    /\ WorkersFrame

\* --------------------------------------------------------- specifications

\* ConverterApp.__init__: app.py lines 57-71.
UiInit ==
    /\ source_dir = None
    /\ dest_dir = None
    /\ png_files = << >>
    /\ source_entry = ""
    /\ dest_entry = ""
    /\ message_queue = << >>
    /\ conversion_thread = NoThread
    /\ is_converting = FALSE
    /\ button_text = ConvertLabel
    /\ button_enabled = FALSE
    /\ status_text = NoLines
    /\ queue_by = << >>
    /\ guard_clicks = {}

\* No function of src/main.py is being called on its own.
NoCall == [name |-> "none"]

\* run_conversion_worker called directly, with a file list of any length up
\* to MaxFiles and arbitrary callables.
WorkerInit ==
    /\ UiInit
    /\ fn = NoCall
    /\ callbacks = "any"
    /\ \E n \in 0..MaxFiles :
          threads = << NewWorker("pics", "out", [k \in 1..n |-> k]) >>

WorkerNext ==
    \/ \E t \in DOMAIN threads : WorkerProgress(t)
    \/ \E t \in DOMAIN threads : WorkerConvert(t)
    \/ \E t \in DOMAIN threads : WorkerLog(t)
    \/ \E t \in DOMAIN threads : WorkerExcept(t)
    \/ \E t \in DOMAIN threads : WorkerFatal(t)
    \/ \E t \in DOMAIN threads : WorkerFinally(t)

WorkerSpec == WorkerInit /\ [][WorkerNext]_vars

\* The application: no thread yet, the application's own callables.
Init ==
    /\ UiInit
    /\ callbacks = "app"
    /\ threads = << >>
    /\ fn = NoCall

Next ==
    \/ \E text \in SourceTexts : OnSourceChange(text)
    \/ \E text \in DestTexts : OnDestChange(text)
    \/ \E folder \in SourceDirs : BrowseSource(folder)
    \/ \E folder \in DestDirs : BrowseDest(folder)
    \/ OnConvertClick
    \/ ProcessQueue
    \/ \E t \in DOMAIN threads : WorkerProgress(t)
    \/ \E t \in DOMAIN threads : WorkerConvert(t)
    \/ \E t \in DOMAIN threads : WorkerLog(t)
    \/ \E t \in DOMAIN threads : WorkerExcept(t)
    \/ \E t \in DOMAIN threads : WorkerFinally(t)

Spec == Init /\ [][Next]_vars

\* A step of worker thread t in the application.
WorkerStepOf(t) ==
    /\ t \in DOMAIN threads
    /\ \/ WorkerProgress(t)
       \/ WorkerConvert(t)
       \/ WorkerLog(t)
       \/ WorkerExcept(t)
       \/ WorkerFinally(t)

\* The steps that touch the channel, the threads or the guard flag: the
\* folder dialogs (which put a log message), the convert click, the polling
\* tick and the workers.  Edits of the entry fields change none of the three
\* and are left to Spec.
LiveNext ==
    \/ \E folder \in SourceDirs : BrowseSource(folder)
    \/ \E folder \in DestDirs : BrowseDest(folder)
    \/ OnConvertClick
    \/ ProcessQueue
    \/ \E t \in DOMAIN threads : WorkerProgress(t)
    \/ \E t \in DOMAIN threads : WorkerConvert(t)
    \/ \E t \in DOMAIN threads : WorkerLog(t)
    \/ \E t \in DOMAIN threads : WorkerExcept(t)
    \/ \E t \in DOMAIN threads : WorkerFinally(t)

\* The application with its scheduling: the timer of _process_queue fires
\* every 100 ms (app.py line 294), so a non-empty channel is eventually
\* polled; a started thread keeps running, and each call it makes (path
\* mapper, converter, queue put) returns or raises in finite time.  The
\* user's actions are under no obligation.
LiveSpec ==
    /\ Init
    /\ [][LiveNext]_vars
    /\ WF_vars(ProcessQueue)
    /\ \A t \in 1..MaxThreads : WF_vars(WorkerStepOf(t))

\* convert_png_to_webp called on its own, for every kind of source and
\* destination and every fault of its steps.
ConverterInit ==
    /\ UiInit
    /\ callbacks = "app"
    /\ threads = << >>
    /\ \E src \in SourceKinds, parent \in ParentKinds,
          denied \in BOOLEAN, writable \in BOOLEAN :
          fn = ConverterCall(src, parent, denied, writable)

ConverterNext ==
    \/ ConvertCheck
    \/ ConvertMkdir
    \/ ConvertOpen
    \/ ConvertSave
    \/ ConvertExcept

ConverterSpec == ConverterInit /\ [][ConverterNext]_vars

\* transform_path called on its own for one or two files, with every
\* spelling of the roots and every filesystem state.
MapperInit ==
    /\ UiInit
    /\ callbacks = "app"
    /\ threads = << >>
    /\ \E fs \in FileSystems, sr \in SourceRoots, dr \in DestRoots :
          \E f \in FilesUnder(sr) \cup FilesElsewhere :
             \/ fn = MapperCall(fs, sr, dr, << f >>)
             \/ \E g \in FilesUnder(sr) \cup FilesElsewhere :
                   fn = MapperCall(fs, sr, dr, << f, g >>)

MapperNext == TransformPath

MapperSpec == MapperInit /\ [][MapperNext]_vars

\* find_png_files called on its own, on every tree and root and with both
\* path flavours, next to the source entry handler that decides whether the
\* application calls it.
DiscovererInit ==
    /\ UiInit
    /\ callbacks = "app"
    /\ threads = << >>
    /\ \/ \E tree \in Trees, flavour \in Flavours :
             fn = DiscovererCall("dir", tree, flavour)
       \/ \E root \in {"missing", "file"}, flavour \in Flavours :
             fn = DiscovererCall(root, {}, flavour)

DiscovererNext ==
    \/ FindPngFiles
    \/ \E text \in SourceTexts : OnSourceChange(text)

DiscovererSpec == DiscovererInit /\ [][DiscovererNext]_vars

\* _process_queue on its own, from the state __init__ leaves.
TickInit ==
    /\ UiInit
    /\ callbacks = "any"
    /\ threads = << >>
    /\ fn = TickIdle

TickNext ==
    \/ TickPut
    \/ TickStart
    \/ TickApply
    \/ TickEmpty
    \/ TickHandler
    \/ TickSchedule

TickSpec == TickInit /\ [][TickNext]_vars

\* The two workers started on the same batch, under every outcome of the
\* path mapper, the converter and the callbacks.
WorkersInit ==
    /\ UiInit
    /\ callbacks = "any"
    /\ \E n \in 0..DirFiles :
       \E convert \in [1..n -> {"map_raise", "true", "false", "raise"}] :
       \E raises \in SUBSET (1..MaxCalls) :
          LET files == [k \in 1..n |-> k]
          IN /\ fn = WorkersCall(files, convert, raises)
             /\ threads = << NewWorker("pics", "out", files),
                             NewWorker("pics", "out", files) >>

WorkersNext ==
    \/ RunConversionWorker
    \/ TkConvertWorker

WorkersSpec == WorkersInit /\ [][WorkersNext]_vars

\* ------------------------------------------------------------ the claims

N(w) == Len(w.png_files)
IsDone(w) == w.pc = "done"
Completes(w) == {k \in DOMAIN w.out : w.out[k][1] = "complete"}

\* C1: for every file list and every combination of per-file failures
\* (converter returns false; path mapper, converter, progress or log callback
\* raises), the Complete message carries successCount + errorCount = len(files).
C1_CountersSumToLength ==
    \A t \in DOMAIN threads :
        \A k \in Completes(threads[t]) :
            threads[t].out[k][2] + threads[t].out[k][3] = N(threads[t])

\* C2: every run of the worker emits exactly one Complete message: none
\* before it ends, one once it has ended, and it cannot stop before it has
\* ended, whether the loop finishes normally, every file fails, or the outer
\* handler is entered.
C2_ExactlyOneComplete ==
    \A t \in DOMAIN threads :
        /\ IsDone(threads[t]) => Cardinality(Completes(threads[t])) = 1
        /\ ~IsDone(threads[t]) =>
              /\ Completes(threads[t]) = {}
              /\ ENABLED WorkerNext

\* C2 witness: a run whose loop was aborted by the outer handler, whose
\* log_status raised as well, has ended.
C2_Witness ==
    \E t \in DOMAIN threads :
        /\ IsDone(threads[t])
        /\ threads[t].aborted
        /\ threads[t].crashed
        /\ threads[t].i < N(threads[t])

\* C3: when the only failures are those of the converter (it returns false
\* or raises on the files of F), Complete carries successCount = n - |F| and
\* errorCount = |F|.
C3_CountsMatchFailures ==
    \A t \in DOMAIN threads :
        (~threads[t].map_raised /\ ~threads[t].cb_raised) =>
            \A k \in Completes(threads[t]) :
                /\ threads[t].out[k][2] = N(threads[t]) - Cardinality(threads[t].fails)
                /\ threads[t].out[k][3] = Cardinality(threads[t].fails)

\* C3 witness: three files, the converter failed on file 2 only, and
\* Complete(2, 1) was emitted.
C3_Witness ==
    \E t \in DOMAIN threads :
        /\ N(threads[t]) = 3
        /\ threads[t].fails = {2}
        /\ ~threads[t].map_raised /\ ~threads[t].cb_raised
        /\ IsDone(threads[t])
        /\ threads[t].out[Len(threads[t].out)] = CompleteMsg(2, 1)

\* C4: when every callback delivers its message, the worker's messages are
\* Progress(1,n), Log 1, Progress(2,n), Log 2, ..., Progress(n,n), Log n,
\* Complete: n Progress messages in order with total n, one Log for file i
\* between Progress(i,n) and Progress(i+1,n), and file i is converted when
\* Progress(i,n) is the last message emitted.
C4_ProgressThenLogPerFile ==
    \A t \in DOMAIN threads :
        LET w == threads[t] IN
        ~w.cb_raised =>
            /\ Len(w.out) <= 2 * N(w) + 1
            /\ \A k \in DOMAIN w.out :
                  CASE k = 2 * N(w) + 1 -> w.out[k][1] = "complete"
                    [] k % 2 = 1 -> w.out[k] = <<"progress", (k + 1) \div 2, N(w)>>
                    [] OTHER ->
                         /\ w.out[k][1] = "log"
                         /\ w.out[k][2][1] \in {"ok", "failed", "error"}
                         /\ w.out[k][2][2] = k \div 2
            /\ w.pc = "convert" => Len(w.out) = 2 * w.i - 1
            /\ IsDone(w) => Len(w.out) = 2 * N(w) + 1

\* C4 witness: a finished batch of three files, one of them failed, with
\* all seven messages emitted.
C4_Witness ==
    \E t \in DOMAIN threads :
        /\ IsDone(threads[t])
        /\ ~threads[t].cb_raised
        /\ N(threads[t]) = 3
        /\ threads[t].error_count = 1
        /\ Len(threads[t].out) = 7

\* The latest batch has emitted its Complete message and no batch has been
\* started since.
LatestBatchComplete ==
    Len(threads) > 0 /\ IsDone(threads[Len(threads)])

C6_AppliedInEmissionOrder ==
    \A t \in DOMAIN threads : IsPrefix(threads[t].seen, threads[t].out)

\* C6 witness: a batch whose messages were applied over more than one poll:
\* some are applied, later ones are queued, and the worker is still running.
C6_Witness ==
    \E t \in DOMAIN threads :
        /\ Len(threads[t].seen) >= 2
        /\ Len(threads[t].out) >= Len(threads[t].seen) + 2
        /\ ~IsDone(threads[t])

\* The worker threads that were started and have not emitted Complete.
Running == {t \in DOMAIN threads : ~IsDone(threads[t])}

\* C7: at most one worker thread has been started and has not yet emitted
\* its Complete message.
C7_AtMostOneRunningWorker == Cardinality(Running) <= 1

\* C7 witness: a second batch is running after the first one completed, and
\* a convert click was made during a batch.
C7_Witness ==
    /\ Len(threads) = 2
    /\ Running = {2}
    /\ "ignored" \in guard_clicks

\* C8: a convert click made while is_converting is true starts no thread and
\* places no message in the channel.
C8_GuardedClickStartsNothing ==
    [][(OnConvertClick /\ is_converting) =>
          (threads' = threads /\ message_queue' = message_queue)]_vars

\* C8 witness: a convert click was ignored by the guard while a batch was in
\* progress.
C8_Witness ==
    /\ "ignored" \in guard_clicks
    /\ is_converting
    /\ Len(threads) = 1

\* C9: a convert click made while is_converting is true leaves the guard
\* flag, the worker handle, the control state and the status log unchanged.
C9_GuardedClickIsSilent ==
    [][(OnConvertClick /\ is_converting) =>
          UNCHANGED <<is_converting, conversion_thread, button_text,
                      button_enabled, status_text>>]_vars

\* C10: when the outer handler is entered (the loop was aborted early), the
\* counters of Complete sum to the length of the file list.
C10_AbortedBatchSumsToLength ==
    \A t \in DOMAIN threads :
        threads[t].aborted =>
            \A k \in Completes(threads[t]) :
                threads[t].out[k][2] + threads[t].out[k][3] = N(threads[t])

\* The Progress messages worker w has put on the channel, in order.
ProgressesOf(w) == SelectSeq(w.out, LAMBDA m : m[1] = "progress")

\* C11: a file whose path mapping raised or whose conversion returned false
\* or raised does not abort the batch: with callbacks that deliver, the outer
\* handler is never entered, the files are attempted in discovery order, and
\* once the worker has ended every file after a failed one has had its
\* Progress message and its own conversion attempt.
C11_FailureDoesNotAbortBatch ==
    \A t \in DOMAIN threads :
        LET w == threads[t] IN
        ~w.cb_raised =>
            /\ ~w.aborted
            /\ w.pc # "fatal"
            /\ IsPrefix(w.tried, w.png_files)
            /\ \A i \in w.faults :
                  IsDone(w) =>
                      \A j \in (i + 1)..N(w) :
                          /\ j <= Len(w.tried)
                          /\ w.tried[j] = w.png_files[j]
                          /\ j <= Len(ProgressesOf(w))
                          /\ ProgressesOf(w)[j] = <<"progress", j, N(w)>>

\* C11 witness: three files, the path mapper raised on the first and the
\* converter failed on the second; the third was attempted and converted.
C11_Witness ==
    \E t \in DOMAIN threads :
        /\ IsDone(threads[t])
        /\ ~threads[t].cb_raised
        /\ N(threads[t]) = 3
        /\ threads[t].map_raised
        /\ threads[t].faults = {1, 2}
        /\ threads[t].fails = {2}
        /\ Len(threads[t].tried) = 3
        /\ threads[t].success_count = 1

\* A fault of one of the converter's steps has occurred in call c.
Faulted(c) == c.exc # None

\* C12: the converter never propagates an exception: no call ends by
\* raising, every call can go on until it has returned, and a call in which
\* the existence check, the directory creation, the decode or the encode
\* raised returns false.
C12_ConverterNeverRaises ==
    fn.name = "convert_png_to_webp" =>
        /\ fn.pc # "raised"
        /\ fn.pc # "returned" => ENABLED ConverterNext
        /\ (fn.pc = "returned" /\ Faulted(fn)) => fn.result = FALSE
        /\ fn.pc = "returned" => fn.result \in BOOLEAN

\* C12 witness: a call in which the codec could not decode the source has
\* returned false.
C12_Witness ==
    /\ fn.name = "convert_png_to_webp"
    /\ fn.pc = "returned"
    /\ fn.exc = "UnidentifiedImageError"
    /\ fn.result = FALSE

\* C13: the converter returns false, without raising, when the source does
\* not exist or is not a regular file, and returns true only if the source
\* check, the creation of the parent directories, the decode and the encode
\* all completed without raising.
C13_ConverterResult ==
    fn.name = "convert_png_to_webp" =>
        /\ fn.source \in {"missing", "dir"} =>
              /\ fn.pc # "raised"
              /\ fn.pc = "returned" => fn.result = FALSE
              /\ fn.dest_file = "absent"
        /\ (fn.pc = "returned" /\ fn.result = TRUE) =>
              /\ fn.done = {"check", "mkdir", "open", "save"}
              /\ ~Faulted(fn)
              /\ fn.dest_file = "webp"

\* C13 witness: a call on a PNG file has returned true after all four steps,
\* the destination's parent directory in place.
C13_Witness ==
    /\ fn.name = "convert_png_to_webp"
    /\ fn.pc = "returned"
    /\ fn.result = TRUE
    /\ fn.source = "png"
    /\ fn.dest_parent = "exists"
    /\ fn.done = {"check", "mkdir", "open", "save"}

\* C14: in every reachable state of the application the convert button is
\* enabled only if both the source directory and the destination directory
\* are set.
C14_EnabledOnlyWithBothDirs ==
    button_enabled => (source_dir # None /\ dest_dir # None)

\* A worker thread takes a step: its position in run_conversion_worker changes.
WorkerMoved == \E t \in DOMAIN threads : threads'[t].pc # threads[t].pc

\* C15: a step of a worker thread changes no UI state (status log, button
\* text, button enabled flag, guard flag, worker handle, directories, file
\* list); outside its own locals it at most puts one message on the channel.
C15_WorkerTouchesOnlyChannel ==
    [][WorkerMoved =>
          /\ UNCHANGED <<status_text, button_text, button_enabled,
                         is_converting, conversion_thread, source_dir,
                         dest_dir, png_files, source_entry, dest_entry>>
          /\ \/ message_queue' = message_queue
             \/ /\ Len(message_queue') = Len(message_queue) + 1
                /\ SubSeq(message_queue', 1, Len(message_queue)) = message_queue]_vars

\* C15 witness: a worker has put its first Progress and Log messages and the
\* display still shows what the click handler left: the UI has not polled.
C15_Witness ==
    \E t \in DOMAIN threads :
        /\ Len(threads[t].out) >= 3
        /\ threads[t].seen = << >>
        /\ button_text = StartingLabel
        /\ status_text.last = StartingText(N(threads[t]))
        /\ is_converting

\* The messages of a queue that write a line, and those that set the button.
LineMsgs(q) == SelectSeq(q, LAMBDA m : m[1] \in {"log", "complete"})
ButtonMsgs(q) == SelectSeq(q, LAMBDA m : m[1] \in {"progress", "complete"})
HasComplete(q) == \E k \in DOMAIN q : q[k][1] = "complete"

\* C16: a poll that empties the channel applies each message's effect.  Every
\* Log and every Complete appends exactly one line (the Log's text, or the
\* summary with the two counts); a Complete restores the button text "Convert"
\* and enables the button, sets is_converting to false and clears the worker
\* handle; a Progress(current, total) sets the button to "Converting..." with
\* current/total; without a Complete the guard flag and the worker handle are
\* not changed.
C16_ApplyEffects ==
    [][(Len(message_queue) > 0 /\ message_queue' = << >>) =>
          LET lines == LineMsgs(message_queue)
              btns == ButtonMsgs(message_queue)
          IN /\ status_text'.count = status_text.count + Len(lines)
             /\ Len(lines) > 0 =>
                   LET m == lines[Len(lines)]
                   IN status_text'.last =
                          IF m[1] = "log" THEN m[2]
                          ELSE <<"summary", m[2], m[3]>>
             /\ Len(lines) = 0 => status_text' = status_text
             /\ Len(btns) = 0 => UNCHANGED <<button_text, button_enabled>>
             /\ Len(btns) > 0 =>
                   LET m == btns[Len(btns)]
                   IN IF m[1] = "complete"
                      THEN /\ button_text'.text = "Convert"
                           /\ button_enabled' = TRUE
                      ELSE button_text' = [text |-> "Converting...",
                                           current |-> m[2], total |-> m[3]]
             /\ IF HasComplete(message_queue)
                THEN is_converting' = FALSE /\ conversion_thread' = NoThread
                ELSE UNCHANGED <<is_converting, conversion_thread>>]_vars

\* C16 witness: a Complete message has just been applied: the summary line is
\* the last line, the button reads "Convert" and is enabled, the guard flag
\* and the worker handle are cleared and the channel is empty.
C16_Witness ==
    /\ \E t \in DOMAIN threads :
          /\ IsDone(threads[t])
          /\ threads[t].seen = threads[t].out
          /\ status_text.last = SummaryText(threads[t].success_count,
                                            threads[t].error_count)
          /\ threads[t].error_count > 0
    /\ button_text = ConvertLabel
    /\ button_enabled
    /\ ~is_converting
    /\ conversion_thread = NoThread
    /\ message_queue = << >>

\* The last name of a path, and a name with its final piece (the extension)
\* replaced by "webp".
LastName(parts) == parts[Len(parts)]
WebpName(n) == Append(SubSeq(n, 1, Len(n) - 1), "webp")
\* The part of file f's path below the root it was found under.
Below(f, root) == SubSeq(f.parts, Len(root.parts) + 1, Len(f.parts))

\* C17: a file located under SourceRoot at relative path d/name.ext is mapped
\* to DestRoot/d/name.webp, for every chain d of subdirectories and either
\* spelling of the extension.
C17_PreservesStructure ==
    fn.name = "transform_path" =>
        \A k \in DOMAIN fn.results :
            fn.files[k] \in FilesUnder(fn.source_root) =>
                LET rel == Below(fn.files[k], fn.source_root)
                    d == SubSeq(rel, 1, Len(rel) - 1)
                IN fn.results[k] =
                       [exc |-> None,
                        path |-> resolve(fn.dest_root, fn.fs) \o d
                                     \o << WebpName(LastName(rel)) >>]

\* C18: for fixed roots, two distinct discovered files are mapped to distinct
\* destination paths.
C18_MappingIsOneToOne ==
    fn.name = "transform_path" =>
        \A j, k \in DOMAIN fn.results :
            (/\ fn.files[j] \in FilesUnder(fn.source_root)
             /\ fn.files[k] \in FilesUnder(fn.source_root)
             /\ fn.files[j] # fn.files[k]
             /\ fn.results[j].exc = None
             /\ fn.results[k].exc = None) =>
                fn.results[j].path # fn.results[k].path

\* C19: a file whose path is not under SourceRoot is mapped, without an
\* exception, to DestRoot joined with the file's name, its extension replaced
\* by webp, and no subdirectory.
C19_FallbackToFileName ==
    fn.name = "transform_path" =>
        \A k \in DOMAIN fn.results :
            ~IsPrefix(resolve(fn.source_root, fn.fs),
                      resolve(fn.files[k], fn.fs)) =>
                fn.results[k] =
                    [exc |-> None,
                     path |-> Append(resolve(fn.dest_root, fn.fs),
                                     WebpName(LastName(fn.files[k].parts)))]

\* C20: the destination's file name is the source's file name with only its
\* final suffix replaced by webp, also when the stem contains dots.
C20_OnlyFinalSuffixReplaced ==
    fn.name = "transform_path" =>
        \A k \in DOMAIN fn.results :
            fn.results[k].exc = None =>
                LastName(fn.results[k].path) =
                    WebpName(LastName(fn.files[k].parts))

\* C21: the mapper's result depends on its three arguments only: the result
\* of a call is the result the same arguments give under every other
\* filesystem state (working directory, symbolic links), and two calls of a
\* batch with the same file give the same result.
C21_MapperIgnoresFilesystem ==
    fn.name = "transform_path" =>
        /\ \A k \in DOMAIN fn.results :
              \A fs \in FileSystems :
                  transform_path(fn.files[k], fn.source_root,
                                 fn.dest_root, fs) = fn.results[k]
        /\ \A j, k \in DOMAIN fn.results :
              fn.files[j] = fn.files[k] => fn.results[j] = fn.results[k]

\* The regular files of a tree whose extension is the source extension in any
\* spelling.
PngFilesOf(tree) ==
    {EntryPath(e) : e \in {x \in tree : x.kind = "file"
                                         /\ x.name[Len(x.name)] \in {"png", "PNG", "Png"}}}
ListedBy(r) == {r.files[k] : k \in DOMAIN r.files}

\* C22: a discovery on a directory returns exactly the regular files beneath
\* the root, at any depth, whose extension is png in any case spelling, with
\* case-sensitive and with case-insensitive matching.
C22_DiscoversEverySpelling ==
    fn.name = "find_png_files" =>
        \A k \in DOMAIN fn.results :
            fn.root = "dir" => ListedBy(fn.results[k]) = PngFilesOf(fn.tree)

\* C23: the list a discovery returns holds no path twice and is in ascending
\* path order, and two discoveries on the same filesystem state return the
\* same list.
C23_NoDuplicatesSorted ==
    fn.name = "find_png_files" =>
        /\ \A k \in DOMAIN fn.results :
              \A i, j \in DOMAIN fn.results[k].files :
                  i < j => /\ fn.results[k].files[i] # fn.results[k].files[j]
                           /\ PathLess(fn.results[k].files[i],
                                       fn.results[k].files[j])
        /\ \A j, k \in DOMAIN fn.results : fn.results[j] = fn.results[k]

\* C23 witness: with case-insensitive matching, two discoveries have returned
\* a list of two files, one of them matched by both patterns.
C23_Witness ==
    /\ fn.name = "find_png_files"
    /\ fn.flavour = "windows"
    /\ Len(fn.results) = 2
    /\ Len(fn.results[1].files) = 2
    /\ \E e \in fn.tree : e.name = <<"y", "PNG">> /\ e.dir # << >>

\* C24: a discovery on a root that does not exist or is not a directory
\* returns the empty list and raises nothing; and while the source entry
\* holds a text that is not an existing directory, the source directory is
\* unset and the discovered file list is empty.
C24_InvalidRootYieldsNothing ==
    /\ fn.name = "find_png_files" =>
          \A k \in DOMAIN fn.results :
              fn.root \in {"missing", "file"} =>
                  fn.results[k] = [exc |-> None, files |-> << >>]
    /\ ~IsDir(source_entry) => (source_dir = None /\ png_files = << >>)

\* C24 witness: a discovery on a missing root has returned, and the source
\* entry was changed from a directory with PNG files to a path that does not
\* exist.
C24_Witness ==
    /\ fn.name = "find_png_files"
    /\ fn.root = "missing"
    /\ Len(fn.results) >= 1
    /\ source_entry = "missing"
    /\ status_text.last = FoundText(DirFiles)

\* Every batch that was started has both roots set and at least one file.
StartedBatchesAreValid ==
    \A t \in DOMAIN threads :
        /\ threads[t].source_dir # None
        /\ threads[t].dest_dir # None
        /\ N(threads[t]) > 0

\* C25: a batch starts only from a non-empty file list and two set
\* directories: a convert click made with the source directory unset, the
\* destination directory unset or an empty file list starts no worker
\* thread, puts no message on the channel and does not set is_converting.
C25_InvalidRequestStartsNothing ==
    /\ []StartedBatchesAreValid
    /\ [][(/\ OnConvertClick
           /\ (source_dir = None \/ dest_dir = None \/ png_files = << >>)) =>
             /\ threads' = threads
             /\ message_queue' = message_queue
             /\ is_converting' = is_converting
             /\ conversion_thread' = conversion_thread]_vars

\* C25 witness: with both directories set and no PNG file found, a click
\* was refused: no thread exists, nothing is queued, is_converting is false.
C25_Witness ==
    /\ status_text.last = MustSelectText
    /\ source_dir # None /\ dest_dir # None /\ png_files = << >>
    /\ threads = << >>
    /\ message_queue = << >>
    /\ ~is_converting

\* A step of the tick itself (not of a producer).
TickStep == TickStart \/ TickApply \/ TickEmpty \/ TickHandler \/ TickSchedule

C27_EachFileCountedOnce ==
    \A t \in DOMAIN threads :
        LET w == threads[t] IN
        /\ w.pc = "progress" => w.success_count + w.error_count = w.i - 1
        /\ (w.pc = "finally" /\ ~w.aborted) =>
              w.success_count + w.error_count = N(w)

\* C28: while a batch is in progress (is_converting is true) the convert
\* button is disabled.
C28_DisabledWhileConverting == is_converting => ~button_enabled

WorkerKeepsItsBatch ==
    \A t \in DOMAIN threads :
        LET w == threads[t] IN
        /\ IsPrefix(w.tried, w.png_files)
        /\ IsDone(w) => w.tried = w.png_files
        /\ \A k \in DOMAIN w.out :
              /\ w.out[k][1] = "progress" => w.out[k][3] = N(w)
              /\ w.out[k][1] = "complete" => w.out[k][2] + w.out[k][3] = N(w)

\* C30: the file list and the roots of a started batch are the worker's: no
\* step (source or destination edit, browse, rediscovery, click, poll)
\* changes the list, its order or the roots of a worker, and the worker
\* iterates and reports exactly that list whatever the controller's
\* directories and file list have become.
C30_WorkerOwnsItsBatch ==
    /\ []WorkerKeepsItsBatch
    /\ [][\A t \in DOMAIN threads :
             /\ threads'[t].png_files = threads[t].png_files
             /\ threads'[t].source_dir = threads[t].source_dir
             /\ threads'[t].dest_dir = threads[t].dest_dir]_vars

\* C30 witness: while a batch of DirFiles files was running the source was
\* changed; the worker has nevertheless attempted all its files with the
\* roots it was started with, and its Complete is not applied yet.
C30_Witness ==
    \E t \in DOMAIN threads :
        /\ IsDone(threads[t])
        /\ is_converting
        /\ N(threads[t]) = DirFiles
        /\ threads[t].tried = threads[t].png_files
        /\ threads[t].source_dir = "pics"
        /\ source_dir # "pics"
        /\ png_files = << >>
        /\ dest_dir # threads[t].dest_dir

\* The UI has applied the Complete message of worker t.
CompleteApplied(t) ==
    /\ t \in DOMAIN threads
    /\ \E k \in DOMAIN threads[t].seen : threads[t].seen[k][1] = "complete"

\* C31: every started batch eventually has its Complete message applied; the
\* guard flag, once true, eventually becomes false again; and whenever it is
\* false a convert click is not rejected by the guard.
C31_BatchEventuallyCompletes ==
    /\ \A t \in 1..MaxThreads : (t \in DOMAIN threads) ~> CompleteApplied(t)
    /\ is_converting ~> ~is_converting
    /\ [](~is_converting => ClickBranch # "ignored")

\* C31 witness: the Complete message of a started batch has been applied, the
\* guard flag is false again and a convert click would start a new batch.
C31_Witness ==
    /\ Len(threads) = 1
    /\ CompleteApplied(1)
    /\ ~is_converting
    /\ ClickBranch = "start"

\* C32: for the same roots, file list and outcomes, _convert_worker and
\* run_conversion_worker put the same sequence of messages: at every moment
\* one's sequence is an initial part of the other's, and once both have
\* returned the two sequences are equal.
C32_WorkersEquivalent ==
    LET a == threads[1].out
        b == threads[2].out
    IN /\ IsPrefix(a, b) \/ IsPrefix(b, a)
       /\ (threads[1].pc = "done" /\ threads[2].pc = "done") => a = b

\* C32 witness: both workers have returned from a batch of two files in which
\* a file failed and the outer handler was entered, each having put a fatal
\* log line and a Complete message.
C32_Witness ==
    /\ threads[1].pc = "done"
    /\ threads[2].pc = "done"
    /\ Len(threads[1].png_files) = 2
    /\ threads[1].aborted
    /\ threads[2].aborted
    /\ threads[1].error_count = 2
    /\ \E k \in DOMAIN threads[2].out : threads[2].out[k] = <<"log", <<"fatal">>>>
    /\ \E k \in DOMAIN threads[1].out : threads[1].out[k][1] = "complete"

\* C33: a non-empty file list implies a set source directory; the list is the
\* discovery result of the current source directory (the empty list when
\* there is none); and a step after which the source entry no longer names an
\* existing directory leaves the list empty.
C33_ListFollowsSourceDir ==
    /\ [](Len(png_files) > 0 => source_dir # None)
    /\ [](png_files = IF source_dir # None /\ IsDir(source_dir)
                      THEN find_png_files(source_dir)
                      ELSE << >>)
    /\ [][(source_entry' # source_entry /\ ~IsDir(source_entry'))
             => (png_files' = << >> /\ source_dir' = None)]_vars

\* C33 witness: two files had been discovered under the source directory, and
\* the entry was then changed to a text that names no directory: the list is
\* empty and no source directory is set.
C33_Witness ==
    /\ source_entry = "missing"
    /\ source_dir = None
    /\ png_files = << >>
    /\ status_text.last = FoundText(DirFiles)

====
